---- MODULE Spec2Model ----
(***************************************************************************)
(* Bank-statement categorization pipeline of backend/crew/tools.py:        *)
(* BankStatementParserTool._run and the helpers it calls (column           *)
(* normalisation, monetary parsing, description cleaning, the regex        *)
(* categorizer, the pickle cache, the batched LLM categorizer and its      *)
(* response parser).                                                       *)
(*                                                                         *)
(* Representation.  Text is a TLA+ string.  A table is what pd.read_csv    *)
(* hands to the tool: a header (sequence of column names) and rows         *)
(* (sequences of cell texts, one per column); an empty cell is the NaN     *)
(* that read_csv produces for an empty field.  A float is a record: an     *)
(* integer number of thousandths, or the NaN flag.  A dict is a function   *)
(* whose domain is its key set, together with the insertion order where    *)
(* the code iterates it.                                                   *)
(*                                                                         *)
(* Specifications.  Spec: one caller invoking the tool again and again.    *)
(* Shared: two callers on one cache path, interleaved step by step.        *)
(* Calls: one direct call of a function of the module on one argument.     *)
(* Live: one LLM-mode call with a positive block_size, started on an       *)
(* absent or completely written cache file, every step of which is         *)
(* eventually taken.                                                       *)
(***************************************************************************)
EXTENDS Integers, Sequences, FiniteSets, TLC

(***************************************************************************)
(* Python str primitives                                                   *)
(***************************************************************************)
Char(s, i) == SubSeq(s, i, i)

Whitespace == {" ", "\t", "\n", "\r"}

DigitChars == {"0", "1", "2", "3", "4", "5", "6", "7", "8", "9"}

UpperChars ==
  {"A", "B", "C", "D", "E", "F", "G", "H", "I", "J", "K", "L", "M",
   "N", "O", "P", "Q", "R", "S", "T", "U", "V", "W", "X", "Y", "Z"}

LowerChars ==
  {"a", "b", "c", "d", "e", "f", "g", "h", "i", "j", "k", "l", "m",
   "n", "o", "p", "q", "r", "s", "t", "u", "v", "w", "x", "y", "z"}

\* str.lower() on one character (ASCII letters and the accented capitals of
\* the category names).
LowerChar(c) ==
  CASE c = "A" -> "a" [] c = "B" -> "b" [] c = "C" -> "c" [] c = "D" -> "d"
    [] c = "E" -> "e" [] c = "F" -> "f" [] c = "G" -> "g" [] c = "H" -> "h"
    [] c = "I" -> "i" [] c = "J" -> "j" [] c = "K" -> "k" [] c = "L" -> "l"
    [] c = "M" -> "m" [] c = "N" -> "n" [] c = "O" -> "o" [] c = "P" -> "p"
    [] c = "Q" -> "q" [] c = "R" -> "r" [] c = "S" -> "s" [] c = "T" -> "t"
    [] c = "U" -> "u" [] c = "V" -> "v" [] c = "W" -> "w" [] c = "X" -> "x"
    [] c = "Y" -> "y" [] c = "Z" -> "z" [] c = "Ç" -> "ç" [] c = "Ã" -> "ã"
    [] c = "Ú" -> "ú" [] c = "Ê" -> "ê" [] c = "Ô" -> "ô"
    [] OTHER -> c

RECURSIVE Lower(_)
Lower(s) == IF s = "" THEN "" ELSE LowerChar(Head(s)) \o Lower(Tail(s))

\* `sub in s`
Contains(s, sub) ==
  \E i \in 1..(Len(s) - Len(sub) + 1) : SubSeq(s, i, i + Len(sub) - 1) = sub

\* s.find(sub) from position i (1-based); 0 when absent.
RECURSIVE FindFrom(_, _, _)
FindFrom(s, sub, i) ==
  IF i + Len(sub) - 1 > Len(s) THEN 0
  ELSE IF SubSeq(s, i, i + Len(sub) - 1) = sub THEN i
  ELSE FindFrom(s, sub, i + 1)

\* s.split(sep), sep non-empty: non-overlapping, left to right.
RECURSIVE Split(_, _)
Split(s, sep) ==
  LET i == FindFrom(s, sep, 1)
  IN  IF i = 0 THEN <<s>>
      ELSE <<SubSeq(s, 1, i - 1)>> \o Split(SubSeq(s, i + Len(sep), Len(s)), sep)

\* s.count(sep), sep non-empty.
Count(s, sep) == Len(Split(s, sep)) - 1

RECURSIVE LStrip(_)
LStrip(s) ==
  IF s # "" /\ Head(s) \in Whitespace THEN LStrip(Tail(s)) ELSE s

RECURSIVE RStrip(_)
RStrip(s) ==
  IF s # "" /\ Char(s, Len(s)) \in Whitespace
  THEN RStrip(SubSeq(s, 1, Len(s) - 1)) ELSE s

\* s.strip()
Strip(s) == RStrip(LStrip(s))

\* sep.join(parts)
RECURSIVE Join(_, _)
Join(parts, sep) ==
  IF Len(parts) = 0 THEN ""
  ELSE IF Len(parts) = 1 THEN parts[1]
  ELSE parts[1] \o sep \o Join(Tail(parts), sep)

\* s.replace(old, new), old non-empty.
Replace(s, old, new) == Join(Split(s, old), new)

\* the set of characters of s: set(s)
CharSet(s) == {Char(s, i) : i \in 1..Len(s)}

\* parts[:n]
Take(q, n) == SubSeq(q, 1, IF n < Len(q) THEN n ELSE Len(q))

(***************************************************************************)
(* Python float(): value in thousandths (further digits are cut), or NaN.  *)
(* The input alphabet of the model has no exponent, underscore or "inf"    *)
(* spelling.                                                               *)
(***************************************************************************)
Flt(m) == [nan |-> FALSE, m |-> m]

NaN == [nan |-> TRUE, m |-> 0]

DigitVal(c) ==
  CASE c = "0" -> 0 [] c = "1" -> 1 [] c = "2" -> 2 [] c = "3" -> 3
    [] c = "4" -> 4 [] c = "5" -> 5 [] c = "6" -> 6 [] c = "7" -> 7
    [] c = "8" -> 8 [] c = "9" -> 9

IsDigits(s) == \A i \in 1..Len(s) : Char(s, i) \in DigitChars

RECURSIVE DigitsValue(_)
DigitsValue(s) ==
  IF s = "" THEN 0
  ELSE 10 * DigitsValue(SubSeq(s, 1, Len(s) - 1)) + DigitVal(Char(s, Len(s)))

\* the fractional digits as a number of thousandths (first three digits)
FracValue(s) == DigitsValue(SubSeq(s \o "000", 1, 3))

\* float(s): [ok |-> FALSE] stands for ValueError.
PyFloat(text) ==
  LET Number(neg, ip, fp) ==
        IF IsDigits(ip) /\ IsDigits(fp) /\ Len(ip) + Len(fp) > 0
        THEN [ok |-> TRUE,
              val |-> Flt((IF neg THEN 0 - 1 ELSE 1)
                          * (1000 * DigitsValue(ip) + FracValue(fp)))]
        ELSE [ok |-> FALSE, val |-> Flt(0)]
      Unsigned(neg, body, dot) ==
        IF Lower(body) = "nan" THEN [ok |-> TRUE, val |-> NaN]
        ELSE Number(neg, IF dot = 0 THEN body ELSE SubSeq(body, 1, dot - 1),
                         IF dot = 0 THEN "" ELSE SubSeq(body, dot + 1, Len(body)))
      Signed(s, body) == Unsigned(s # "" /\ Head(s) = "-", body, FindFrom(body, ".", 1))
      Stripped(s) == Signed(s, IF s # "" /\ Head(s) \in {"-", "+"} THEN Tail(s) ELSE s)
  IN  Stripped(Strip(text))

\* re.sub(r'[R$\s]+', '', s)
RECURSIVE StripCurrency(_)
StripCurrency(s) ==
  IF s = "" THEN ""
  ELSE IF Head(s) \in ({"R", "$"} \cup Whitespace) THEN StripCurrency(Tail(s))
       ELSE Head(s) \o StripCurrency(Tail(s))

\* the branch on the separator counts, tools.py 626-640
LocaleRewrite(s) ==
  LET Branch(dot_count, comma_count) ==
        IF comma_count = 1 /\ dot_count >= 1
          THEN Replace(Replace(s, ".", ""), ",", ".")
        ELSE IF comma_count = 1 /\ dot_count = 0
          THEN Replace(s, ",", ".")
        ELSE IF comma_count >= 1 /\ dot_count = 0
          THEN IF comma_count > 1 \/ Len(Replace(s, ",", "")) > 3
               THEN Replace(s, ",", "")
               ELSE Replace(s, ",", ".")
        ELSE s
  IN  Branch(Count(s, "."), Count(s, ","))

\* normalize_monetary_value(val): val is a cell of the amount column
normalize_monetary_value(val) ==
  IF val = "" THEN Flt(0)
  ELSE LET Second(again) == IF again.ok THEN again.val ELSE Flt(0)
           First(direct) ==
             IF direct.ok THEN direct.val
             ELSE Second(PyFloat(LocaleRewrite(StripCurrency(Strip(val)))))
       IN  First(PyFloat(val))

(***************************************************************************)
(* DescriptionCleaner                                                      *)
(***************************************************************************)
\* variant: three segments are kept
clean_transaction_name_three(t) ==
  IF t = "" THEN ""
  ELSE IF Len(Split(t, " - ")) > 3 THEN Join(Take(Split(t, " - "), 3), " - ") ELSE t
\* clean_transaction_name(transaction_name)
clean_transaction_name(t) ==
  IF t = "" THEN ""
  ELSE LET Shorten(parts) ==
             IF Len(parts) > 2 THEN Join(Take(parts, 2), " - ") ELSE t
       IN  Shorten(Split(t, " - "))

\* BankStatementParserTool._clean_description(descricao); "" is also NaN
CleanDescription(descricao) ==
  IF descricao = "" THEN ""
  ELSE LET Shorten(s) ==
             IF Count(s, " - ") >= 2
             THEN Strip(Join(Take(Split(s, " - "), 2), " - "))
             ELSE s
       IN  Shorten(Strip(descricao))

(***************************************************************************)
(* RegexCategorizer                                                        *)
(***************************************************************************)
Rule(alts, cat) == [alts |-> alts, cat |-> cat]

\* the dict CATEGORY_MAP in insertion order; each key is an alternation of
\* literal texts
CATEGORY_MAP ==
  << Rule(<<"mercado", "supermerc", "hiper", "carrefour", "pao de acucar", "assai">>, "Mercado"),
     Rule(<<"restaurante", "pizza", "lanchonete", "ifood", "ubereats">>, "Alimentação"),
     Rule(<<"aluguel", "condominio", "iptu", "imobiliaria">>, "Moradia"),
     Rule(<<"energia", "luz", "copel", "enel", "eletrobras", "cemig">>, "Moradia"),
     Rule(<<"agua", "sanepar", "sabesp", "corsan">>, "Moradia"),
     Rule(<<"internet", "vivo", "claro", "tim", "oi", "net">>, "Serviços"),
     Rule(<<"uber", "99", "transporte", "onibus", "metrô", "metro", "estacionamento",
            "combustivel", "posto", "autopass">>, "Transporte"),
     Rule(<<"farmacia", "drogaria", "droga", "saude", "consulta", "seguro saude">>, "Saúde"),
     Rule(<<"netflix", "spotify", "disney", "hbo", "prime video">>, "Streaming"),
     Rule(<<"salario", "provento", "pagto", "pagamento", "creditos">>, "Renda"),
     Rule(<<"pix", "ted", "doc", "transferencia">>, "Transferências"),
     Rule(<<"educacao", "curso", "faculdade", "escola">>, "Educação"),
     Rule(<<"invest", "tesouro", "cdb", "fundo", "bolsa", "corretora", "clear", "xp", "rico">>,
          "Investimentos") >>

\* re.search(pattern, text) for an alternation of literals
RuleMatches(rule, text) ==
  \E j \in 1..Len(rule.alts) : Contains(text, rule.alts[j])

RECURSIVE FirstRule(_, _, _)
FirstRule(rules, text, i) ==
  IF i > Len(rules) THEN "Outros"
  ELSE IF RuleMatches(rules[i], text) THEN rules[i].cat
  ELSE FirstRule(rules, text, i + 1)

\* variant: the patterns are searched in the description as it is written
CategorizeCaseSensitive(descricao) == FirstRule(CATEGORY_MAP, descricao, 1)
\* BankStatementParserTool._categorize(descricao)
Categorize(descricao) == FirstRule(CATEGORY_MAP, Lower(descricao), 1)

(***************************************************************************)
(* LLM response parser                                                     *)
(***************************************************************************)
\* _calculate_similarity(str1, str2) > 0.8: Jaccard index of the two
\* character sets, compared as 5 * |intersection| > 4 * |union|
SimilarityAbove(str1, str2) ==
  LET Jaccard(set1, set2) ==
        5 * Cardinality(set1 \cap set2) > 4 * Cardinality(set1 \cup set2)
  IN  /\ str1 # ""
      /\ str2 # ""
      /\ Jaccard(CharSet(Lower(str1)), CharSet(Lower(str2)))

\* \w of the re module, on the model's alphabet
WordChars ==
  DigitChars \cup UpperChars \cup LowerChars \cup
  {"_", "ç", "ã", "ú", "ê", "ô", "é", "á", "í", "ó", "Ç", "Ã", "Ú", "Ê", "Ô"}

\* re.sub(r'[^\w\s]', '', s)
RECURSIVE RemovePunctuation(_)
RemovePunctuation(s) ==
  IF s = "" THEN ""
  ELSE IF Head(s) \in (WordChars \cup Whitespace)
       THEN Head(s) \o RemovePunctuation(Tail(s))
       ELSE RemovePunctuation(Tail(s))

\* re.sub(r'^\d+\.\s*', '', line)
RECURSIVE DigitPrefixLen(_, _)
DigitPrefixLen(s, i) ==
  IF i <= Len(s) /\ Char(s, i) \in DigitChars THEN DigitPrefixLen(s, i + 1) ELSE i - 1

StripNumbering(line) ==
  LET Cut(n) ==
        IF n >= 1 /\ n < Len(line) /\ Char(line, n + 1) = "."
        THEN LStrip(SubSeq(line, n + 2, Len(line)))
        ELSE line
  IN  Cut(DigitPrefixLen(line, 1))

\* [line.strip() for line in response.split('\n') if line.strip()]
RECURSIVE NonEmptyStripped(_)
NonEmptyStripped(ls) ==
  IF Len(ls) = 0 THEN <<>>
  ELSE LET Keep(line) == IF line = "" THEN <<>> ELSE <<line>>
       IN  Keep(Strip(Head(ls))) \o NonEmptyStripped(Tail(ls))

ResponseLines(response) == NonEmptyStripped(Split(response, "\n"))

separators == <<" - ", ":", " -> ", " | ", "\t">>

InSeq(x, q) == \E i \in 1..Len(q) : q[i] = x

\* the keys of a dict built by inserting ks[1], ks[2], ... in order
RECURSIVE KeyOrder(_)
KeyOrder(ks) ==
  IF Len(ks) = 0 THEN <<>>
  ELSE LET Add(front, k) == IF InSeq(k, front) THEN front ELSE Append(front, k)
       IN  Add(KeyOrder(SubSeq(ks, 1, Len(ks) - 1)), ks[Len(ks)])

\* keys of trans_originais = {clean_transaction_name(t): t for t in ...}
OriginalKeys(original_transactions) ==
  KeyOrder([i \in 1..Len(original_transactions) |->
              clean_transaction_name(original_transactions[i])])

\* trans_originais[k]: the last transaction whose cleaned name is k
OriginalOf(original_transactions, k) ==
  LET Last(idx) == original_transactions[CHOOSE i \in idx : \A j \in idx : j <= i]
  IN  Last({i \in 1..Len(original_transactions) :
              clean_transaction_name(original_transactions[i]) = k})

\* trans_originais_lower[x]: the value of the last key whose lower() is x
LowerOriginalOf(original_transactions, keys, x) ==
  LET Last(idx) ==
        OriginalOf(original_transactions, keys[CHOOSE i \in idx : \A j \in idx : j <= i])
  IN  Last({i \in 1..Len(keys) : Lower(keys[i]) = x})

PartialMatch(trans_part, orig_clean) ==
  \/ Contains(Lower(orig_clean), Lower(trans_part))
  \/ Contains(Lower(trans_part), Lower(orig_clean))
  \/ SimilarityAbove(Lower(trans_part), Lower(orig_clean))

\* the pair one separator gives for a line, as a sequence of zero or one pair
MatchWithSeparator(line, sep, original_transactions) ==
  LET Partial(keys, cat_clean, partial) ==
        IF partial # {}
        THEN << <<keys[CHOOSE i \in partial : \A j \in partial : i <= j], cat_clean>> >>
        ELSE <<>>
      Match(trans_part, cat_clean, keys) ==
        IF InSeq(trans_part, keys) THEN << <<trans_part, cat_clean>> >>
        ELSE IF \E i \in 1..Len(keys) : Lower(keys[i]) = Lower(trans_part)
          THEN << <<LowerOriginalOf(original_transactions, keys, Lower(trans_part)),
                    cat_clean>> >>
        ELSE Partial(keys, cat_clean,
                     {i \in 1..Len(keys) : PartialMatch(trans_part, keys[i])})
      Parts(parts) ==
        Match(Strip(parts[1]), Strip(RemovePunctuation(Strip(parts[Len(parts)]))),
              OriginalKeys(original_transactions))
  IN  IF ~Contains(line, sep) THEN <<>> ELSE Parts(Split(line, sep))

\* the separators are tried in order until one gives a pair
RECURSIVE ParseLine(_, _, _)
ParseLine(line, i, original_transactions) ==
  IF i > Len(separators) THEN <<>>
  ELSE LET OrNext(got) ==
             IF Len(got) > 0 THEN got
             ELSE ParseLine(line, i + 1, original_transactions)
       IN  OrNext(MatchWithSeparator(line, separators[i], original_transactions))

RECURSIVE ParseLines(_, _)
ParseLines(lines, original_transactions) ==
  IF Len(lines) = 0 THEN <<>>
  ELSE ParseLine(StripNumbering(Head(lines)), 1, original_transactions)
       \o ParseLines(Tail(lines), original_transactions)

\* parse_llm_categorization_response(response, original_transactions)
parse_llm_categorization_response(response, original_transactions) ==
  IF response = "" \/ Len(original_transactions) = 0 THEN <<>>
  ELSE ParseLines(ResponseLines(response), original_transactions)

(***************************************************************************)
(* ColumnNormalizer                                                        *)
(***************************************************************************)
DEFAULT_COLUMNS_CANDIDATES ==
  [date   |-> <<"data", "date", "dt", "data_lancamento">>,
   desc   |-> <<"descricao", "Descrição", "historico", "description", "detalhe",
                "descrição", "title">>,
   amount |-> <<"valor", "amount", "vl", "montante">>]

\* cols = {c.lower().strip(): c for c in df.columns}: a later column with
\* the same key replaces an earlier one
ColsHas(header, key) == \E i \in 1..Len(header) : Strip(Lower(header[i])) = key

ColsGet(header, key) ==
  LET Last(idx) == header[CHOOSE i \in idx : \A j \in idx : j <= i]
  IN  Last({i \in 1..Len(header) : Strip(Lower(header[i])) = key})

\* find_col(cands): "" stands for None
RECURSIVE find_col(_, _, _)
find_col(header, cands, i) ==
  IF i > Len(cands) THEN ""
  ELSE IF ColsHas(header, cands[i]) THEN ColsGet(header, cands[i])
  ELSE find_col(header, cands, i + 1)

\* find_col(...) or list(df.columns)[n - 1]; [ok |-> FALSE] is IndexError
ResolveColumn(header, cands, n) ==
  LET Or(found) ==
        IF found # "" THEN [ok |-> TRUE, col |-> found]
        ELSE IF n <= Len(header) THEN [ok |-> TRUE, col |-> header[n]]
        ELSE [ok |-> FALSE, col |-> ""]
  IN  Or(find_col(header, cands, 1))

\* df.rename(columns={c_date: "data", c_desc: "descricao", c_amt: "valor"}):
\* in the dict literal a repeated key keeps its last value
RenameColumn(c, c_date, c_desc, c_amt) ==
  IF c = c_amt THEN "valor"
  ELSE IF c = c_desc THEN "descricao"
  ELSE IF c = c_date THEN "data"
  ELSE c

IdColumns == {"identificador", "Identificador", "id", "ID"}

ColumnIndexes(header, name) == {i \in 1..Len(header) : header[i] = name}

\* the absent value of a cell or of a category (NaN / None)
None == "<None>"

Cell(header, row, name) ==
  LET Value(c) == IF c = "" THEN None ELSE c
      At(idx) == IF idx = {} THEN None ELSE Value(row[CHOOSE i \in idx : TRUE])
  IN  At(ColumnIndexes(header, name))

\* BankStatementParserTool._normalize_columns(df).  The result keeps the
\* canonical columns and `categoria`; the other columns of the input play
\* no part in what follows.  ok = FALSE: the call raised (IndexError of the
\* positional fallback, or `valor` naming two columns).
NormalizeColumns(df) ==
  LET Out(kept, valorAt) ==
        [ok |-> TRUE, error |-> "", header |-> kept,
         rows |-> [r \in 1..Len(df.rows) |->
                     [data      |-> Cell(kept, df.rows[r], "data"),
                      descricao |-> Cell(kept, df.rows[r], "descricao"),
                      valor     |-> normalize_monetary_value(df.rows[r][valorAt]),
                      categoria |-> Cell(kept, df.rows[r], "categoria")]]]
      Renamed(renamed, valorIdx) ==
        IF Cardinality(valorIdx) # 1
        THEN [ok |-> FALSE, error |-> "The truth value of a Series is ambiguous",
              header |-> <<>>, rows |-> <<>>]
        ELSE Out([i \in 1..Len(renamed) |->
                    IF renamed[i] \in IdColumns THEN "<dropped>" ELSE renamed[i]],
                 CHOOSE i \in valorIdx : TRUE)
      Rename(renamed) == Renamed(renamed, ColumnIndexes(renamed, "valor"))
      Resolved(c_date, c_desc, c_amt) ==
        IF ~(c_date.ok /\ c_desc.ok /\ c_amt.ok)
        THEN [ok |-> FALSE, error |-> "list index out of range",
              header |-> <<>>, rows |-> <<>>]
        ELSE Rename([i \in 1..Len(df.header) |->
                       RenameColumn(df.header[i], c_date.col, c_desc.col, c_amt.col)])
  IN  Resolved(ResolveColumn(df.header, DEFAULT_COLUMNS_CANDIDATES.date, 1),
               ResolveColumn(df.header, DEFAULT_COLUMNS_CANDIDATES.desc, 2),
               ResolveColumn(df.header, DEFAULT_COLUMNS_CANDIDATES.amount, 3))

(***************************************************************************)
(* DataFrame helpers                                                       *)
(***************************************************************************)
\* variant: the boundary amount 0 taken as an expense
IsExpenseOrZero(row) == ~row.valor.nan /\ row.valor.m <= 0
\* line 485: df["valor"] < 0
IsExpense(row) == ~row.valor.nan /\ row.valor.m < 0

\* line 486: df["valor"] >= 0
IsNonExpense(row) == ~row.valor.nan /\ row.valor.m >= 0

\* order of the `data` column: numbers as read_csv parses them, NaN last
DateKey(row) == IF row.data = None THEN 2147483647 ELSE DigitsValue(row.data)

\* insertion of one row behind the rows whose key is not larger
RECURSIVE InsertByDate(_, _)
InsertByDate(sorted, row) ==
  IF Len(sorted) = 0 THEN <<row>>
  ELSE IF DateKey(sorted[Len(sorted)]) <= DateKey(row) THEN Append(sorted, row)
  ELSE Append(InsertByDate(SubSeq(sorted, 1, Len(sorted) - 1), row), sorted[Len(sorted)])

\* df.sort_values("data"): for the few rows of the model the sort is the
\* stable insertion sort
RECURSIVE SortByDate(_)
SortByDate(rows) ==
  IF Len(rows) = 0 THEN <<>>
  ELSE InsertByDate(SortByDate(SubSeq(rows, 1, Len(rows) - 1)), rows[Len(rows)])

RECURSIVE SumValor(_)
SumValor(rows) ==
  IF Len(rows) = 0 THEN 0 ELSE Head(rows).valor.m + SumValor(Tail(rows))

WithCategoria(rows, Cat(_)) ==
  [i \in 1..Len(rows) |-> [rows[i] EXCEPT !.categoria = Cat(rows[i])]]

(***************************************************************************)
(* CategorizationCache: the dict held in memory                            *)
(***************************************************************************)
EmptyDict == <<>>

Put(d, k, v) == [x \in (DOMAIN d) \cup {k} |-> IF x = k THEN v ELSE d[x]]

\* pickle.dump of a dict: its items one after the other
RECURSIVE Pickle(_)
Pickle(mapping) ==
  IF DOMAIN mapping = {} THEN <<>>
  ELSE LET Item(k) ==
             <<<<k, mapping[k]>>>> \o Pickle([x \in DOMAIN mapping \ {k} |-> mapping[x]])
       IN  Item(CHOOSE k \in DOMAIN mapping : TRUE)

\* pickle.load of a complete dump: the dict built item by item
RECURSIVE Unpickle(_)
Unpickle(items) ==
  IF Len(items) = 0 THEN EmptyDict
  ELSE Put(Unpickle(Tail(items)), Head(items)[1], Head(items)[2])

\* open(path, 'wb'), line 328: the file exists and is empty
Truncated(by) == [exists |-> TRUE, intact |-> FALSE, items |-> <<>>, by |-> by]

\* variant: only the entries with a label other than "Outros" are written
DumpedResolved(cache, by) ==
  [exists |-> TRUE, intact |-> TRUE,
   items |-> Pickle([k \in {x \in DOMAIN cache : cache[x] # "Outros"} |-> cache[k]]),
   by |-> by]
\* variant: the file is closed before the last item is written
DumpedShort(cache, by) ==
  [exists |-> TRUE, intact |-> TRUE,
   items |-> SubSeq(Pickle(cache), 1, Len(Pickle(cache)) - 1), by |-> by]
\* pickle.dump(cache, f) and the close of the file, line 329
Dumped(cache, by) == [exists |-> TRUE, intact |-> TRUE, items |-> Pickle(cache), by |-> by]

\* pickle.load raises EOFError on a file without a complete dump
LoadRaises(f) == f.exists /\ ~f.intact

\* load_cache, lines 319-324
load_cache(f) == IF f.exists THEN Unpickle(f.items) ELSE EmptyDict

\* lines 725-728: the pairs of the parsed response, in order
RECURSIVE ApplyResults(_, _)
ApplyResults(cache, resultado) ==
  IF Len(resultado) = 0 THEN cache
  ELSE LET Store(t_clean, cat) ==
             IF t_clean \notin DOMAIN cache \/ cache[t_clean] = "Outros"
             THEN Put(cache, t_clean, cat) ELSE cache
       IN  ApplyResults(
             Store(clean_transaction_name(Head(resultado)[1]), Head(resultado)[2]),
             Tail(resultado))

\* lines 731-736 (transacoes_processadas = processed) and 740-744
\* (processed = {}): the regex fallback over the block
RECURSIVE RegexFallback(_, _, _)
RegexFallback(cache, bloco, processed) ==
  IF Len(bloco) = 0 THEN cache
  ELSE LET Store(t_clean) ==
             IF t_clean \notin processed /\ t_clean \notin DOMAIN cache
             THEN Put(cache, t_clean, Categorize(Head(bloco))) ELSE cache
       IN  RegexFallback(Store(clean_transaction_name(Head(bloco))),
                         Tail(bloco), processed)

\* variant: the block's results replace the mapping
BlockAnsweredFresh(cache, bloco, response) ==
  RegexFallback(ApplyResults(EmptyDict, parse_llm_categorization_response(response, bloco)),
                bloco, {})
\* variant: every pair of the response is stored, the last one for a key wins
BlockAnsweredLastWins(cache, bloco, response) ==
  LET Parsed(resultado) ==
        RegexFallback(
          [k \in DOMAIN cache
                   \cup {clean_transaction_name(resultado[i][1]) : i \in 1..Len(resultado)} |->
             LET hits == {i \in 1..Len(resultado) :
                            clean_transaction_name(resultado[i][1]) = k}
             IN  IF hits = {} THEN cache[k]
                 ELSE resultado[CHOOSE i \in hits : \A j \in hits : j <= i][2]],
          bloco,
          {clean_transaction_name(resultado[i][1]) : i \in 1..Len(resultado)})
  IN  Parsed(parse_llm_categorization_response(response, bloco))
\* the try branch of one block, lines 722-736
BlockAnswered(cache, bloco, response) ==
  LET Parsed(resultado) ==
        RegexFallback(ApplyResults(cache, resultado), bloco,
                      {clean_transaction_name(resultado[i][1]) : i \in 1..Len(resultado)})
  IN  Parsed(parse_llm_categorization_response(response, bloco))

\* variant: a failed block stores the default label instead of the regex result
BlockFailedAsOutros(cache, bloco) ==
  [k \in DOMAIN cache \cup {clean_transaction_name(bloco[i]) : i \in 1..Len(bloco)} |->
     IF k \in DOMAIN cache THEN cache[k] ELSE "Outros"]
\* variant: the except branch only logs the error
BlockFailedLogged(cache, bloco) == cache
\* the except branch of one block, lines 738-744
BlockFailed(cache, bloco) == RegexFallback(cache, bloco, {})

\* variant: a description cached as "Outros" is selected again
NeedsCategorizationOrOutros(cache, t) ==
  /\ clean_transaction_name(t) # ""
  /\ \/ clean_transaction_name(t) \notin DOMAIN cache
     \/ cache[clean_transaction_name(t)] = "Outros"
\* variant: a description without text is selected as well
NeedsCategorizationEmpty(cache, t) == clean_transaction_name(t) \notin DOMAIN cache
\* lines 699-704: transacoes_para_categorizar
NeedsCategorization(cache, t) ==
  clean_transaction_name(t) # "" /\ clean_transaction_name(t) \notin DOMAIN cache

ToCategorize(transacoes, cache) ==
  LET Needs(t) == NeedsCategorization(cache, t) IN SelectSeq(transacoes, Needs)

\* lines 750-759: cache.get(t_clean), the regex result when absent or falsy
FinalCategory(cache, t) ==
  LET Get(t_clean) ==
        IF t_clean \in DOMAIN cache /\ cache[t_clean] # "" THEN cache[t_clean]
        ELSE Categorize(t)
  IN  Get(clean_transaction_name(t))

\* transacoes_para_categorizar[i:i+block_size], i = pos
Bloco(todo, pos, block_size) ==
  SubSeq(todo, pos + 1, IF pos + block_size < Len(todo) THEN pos + block_size ELSE Len(todo))

(***************************************************************************)
(* _refine_categories_with_llm: reply is the parsed "mappings" list, or    *)
(* RefineFailed when generate or json.loads raised                         *)
(***************************************************************************)
RefineFailed == << [descricao |-> "<failed>", categoria |-> None] >>

\* mapping = {m["descricao"].lower(): m["categoria"]}: the last entry of a
\* key wins; .map(mapping).fillna(df["categoria"])
RefinedCategory(row, reply) ==
  LET Hit(hit) == IF hit = None THEN row.categoria ELSE hit
      Map(idx) ==
        IF reply = RefineFailed \/ idx = {} THEN row.categoria
        ELSE Hit(reply[CHOOSE i \in idx : \A j \in idx : j <= i].categoria)
  IN  Map({i \in 1..Len(reply) : Lower(reply[i].descricao) = Lower(row.descricao)})

(***************************************************************************)
(* BankStatementParserTool._run                                            *)
(***************************************************************************)
NoTotals == <<>>

Err(message) ==
  [ok |-> FALSE, error |-> message, method |-> "", n_transacoes |-> 0,
   n_despesas |-> 0, n_receitas |-> 0, totais_por_categoria |-> NoTotals,
   transacoes |-> <<>>]

SeqRange(q) == {q[i] : i \in 1..Len(q)}

RowsOfCategory(rows, cat) == LET Is(r) == r.categoria = cat IN SelectSeq(rows, Is)

\* lines 529-544: groupby("categoria") leaves out the rows whose category is
\* null; the Renda line is added when its sum is positive.  The list is held
\* as a dict categoria -> valor (its order is not modelled).
Totals(df_categorized) ==
  LET Lines(cats, total_renda) ==
        [c \in cats \cup (IF total_renda > 0 THEN {"Renda"} ELSE {}) |->
           SumValor(RowsOfCategory(df_categorized, c))]
  IN  Lines({r.categoria : r \in SeqRange(df_categorized)} \ {"Renda", None},
            SumValor(RowsOfCategory(df_categorized, "Renda")))

\* lines 515-556
Summary(method, df_expenses, df_non_expenses, dataOk) ==
  LET Payload(df_categorized) ==
        [ok |-> TRUE, error |-> "", method |-> method,
         n_transacoes |-> Len(df_categorized),
         n_despesas |-> Len(df_expenses),
         n_receitas |-> Len(df_non_expenses),
         totais_por_categoria |-> Totals(df_categorized),
         transacoes |-> df_categorized]
  IN  IF ~dataOk THEN Err("'data'")
      ELSE Payload(SortByDate(df_expenses \o df_non_expenses))

\* lines 474-497: reading, normalisation, cleaning and the partition
Prepare(inp) ==
  LET fail(message) == [ok |-> FALSE, error |-> message, already |-> FALSE,
                        dataOk |-> FALSE, expenses |-> <<>>, non_expenses |-> <<>>]
      Partition(norm, cleaned) ==
        [ok |-> TRUE, error |-> "",
         already |-> \E i \in 1..Len(norm.rows) : norm.rows[i].categoria # None,
         dataOk |-> Cardinality(ColumnIndexes(norm.header, "data")) = 1,
         expenses |-> SelectSeq(cleaned, IsExpense),
         non_expenses |-> SelectSeq(cleaned, IsNonExpense)]
      Normalized(norm) ==
        IF ~norm.ok THEN fail(norm.error)
        ELSE IF Cardinality(ColumnIndexes(norm.header, "descricao")) # 1
          THEN fail("'descricao'")
        ELSE Partition(norm,
               [i \in 1..Len(norm.rows) |->
                  [norm.rows[i] EXCEPT !.descricao =
                     CleanDescription(IF @ = None THEN "" ELSE @)]])
  IN  IF inp.ext # ".csv" THEN fail("Unsupported extension: " \o inp.ext)
      ELSE IF ~inp.readable THEN fail("No columns to parse from file")
      ELSE IF Len(inp.df.rows) = 0 THEN fail("Empty or unreadable statement")
      ELSE Normalized(NormalizeColumns(inp.df))

RegexCategory(row) == Categorize(row.descricao)

RendaCategory(row) == "Renda"

(***************************************************************************)
(* Bounds and inputs                                                       *)
(***************************************************************************)
\* rows of an uploaded statement
MaxRows == 2

\* invocations of the tool in one behaviour
MaxRuns == 2

\* block_size when the caller gives none
DefaultBlockSize == 10

Procs == {"p1", "p2"}

\* cells <<date, description, amount>> of a statement row
RowPool ==
  { <<"2", "uber", "-45,90">>,
    <<"1", "pagamento boleto", "-50">>,
    <<"1", "loja - sp - 0001", "-10.5">>,
    <<"2", "salario", "1.234,56">>,
    <<"1", "estorno", "0">>,
    <<"1", "uber", "R$ nan">> }

\* rows of a statement that already carries a `categoria` column
CategorizedRowPool ==
  { <<"1", "uber", "-45,90", "Lazer">>,
    <<"2", "salario", "100", "Mercado">>,
    <<"1", "loja", "-7", "">> }

SeqsUpTo(S, n) == UNION {[1..k -> S] : k \in 1..n}

Tables ==
  {[header |-> <<"Data", "Descrição", "Valor">>, rows |-> rs] :
      rs \in SeqsUpTo(RowPool, MaxRows)}
  \cup
  {[header |-> <<"data", "descricao", "valor", "categoria">>, rows |-> rs] :
      rs \in SeqsUpTo(CategorizedRowPool, MaxRows)}

BlockSizes == {0 - 1, 0, 1, 2}

Input(ext, readable, df, method, block_size, llm_enhanced) ==
  [ext |-> ext, readable |-> readable, df |-> df, categorization_method |-> method,
   block_size |-> block_size, llm_enhanced |-> llm_enhanced]

NoTable == [header |-> <<>>, rows |-> <<>>]

\* calls that end before any row is looked at
BadInputs ==
  { Input(".txt", TRUE, NoTable, "regex", DefaultBlockSize, FALSE),
    Input(".csv", FALSE, NoTable, "regex", DefaultBlockSize, FALSE),
    Input(".csv", TRUE, [header |-> <<"data", "descricao", "valor">>, rows |-> <<>>],
          "regex", DefaultBlockSize, FALSE),
    Input(".csv", TRUE, [header |-> <<"data", "descricao">>, rows |-> << <<"1", "uber">> >>],
          "regex", DefaultBlockSize, FALSE),
    Input(".csv", TRUE, [header |-> <<"x", "data", "valor">>,
                         rows |-> << <<"uber", "1", "-5">> >>], "ollama", 1, FALSE) }

Inputs ==
  BadInputs
  \cup {Input(".csv", TRUE, df, "regex", DefaultBlockSize, e) : df \in Tables, e \in BOOLEAN}
  \cup {Input(".csv", TRUE, df, "ollama", b, FALSE) : df \in Tables, b \in BlockSizes}

\* rows of the statements of the LLM-mode calls below; one has no description
LiveRows ==
  { <<"2", "uber", "-45,90">>,
    <<"1", "pagamento boleto", "-50">>,
    <<"1", "loja - sp - 0001", "-10.5">>,
    <<"1", "", "-5">> }

\* LLM-mode calls with a positive block_size on uncategorized statements
LiveInputs ==
  {Input(".csv", TRUE, [header |-> <<"Data", "Descrição", "Valor">>, rows |-> rs],
         "ollama", b, FALSE) :
     rs \in SeqsUpTo(LiveRows, MaxRows), b \in {x \in BlockSizes : x > 0}}

\* every statement as _run holds it at line 497
Statements == [inp \in Inputs \cup LiveInputs |-> Prepare(inp)]

\* resposta.content of one block
Responses ==
  { "",
    "uber - Lazer\nloja - sp - Outros",
    "1. UBER: Viagens!\nuber - Mercado",
    "uber - Outros" }

\* replies of the refinement pass
RefineReplies ==
  { RefineFailed,
    << [descricao |-> "UBER", categoria |-> "Lazer"],
       [descricao |-> "loja - sp", categoria |-> None] >>,
    << [descricao |-> "uber", categoria |-> "Viagens"] >> }

(***************************************************************************)
(* State                                                                   *)
(***************************************************************************)
VARIABLES
  file,      \* the pickle at CACHE_PATH: exists, intact (a complete dump),
             \* items (the dumped items), by (the caller that wrote it last)
  clientOk,  \* ChatOllama was imported and its constructor succeeds
  runs,      \* calls of _run started so far
  run,       \* per caller: the call of _run in progress
  call       \* a direct call of one of the module's functions: fn, arg, ret, pc
\* run[p]: pc (idle, llm: a block is about to be sent, save, dump, done),
\* inp (arguments and statement), already (already_categorized), dataOk (the
\* frame has one `data` column), the two partitions, cache (in memory),
\* loaded (the cache as load_cache returned it), todo
\* (transacoes_para_categorizar), pos (the loop index i), calls and raised
\* (LLM invocations of this call, and those that raised), resultado (the
\* pairs parsed from the last response, none after a raise), out (the payload),
\* again and prevOut (the call repeats the previous one, whose payload was
\* prevOut).

vars == <<file, clientOk, runs, run, call>>

NoFile == [exists |-> FALSE, intact |-> FALSE, items |-> <<>>, by |-> "none"]

NoCall == [fn |-> "none", arg |-> "", ret |-> "", pc |-> "returned"]

NoInput == Input("", FALSE, NoTable, "", 0, FALSE)

NoOut == Err("<none>")

IdleRun ==
  [pc |-> "idle", inp |-> NoInput, dataOk |-> FALSE, already |-> FALSE,
   df_expenses |-> <<>>, df_non_expenses |-> <<>>,
   cache |-> EmptyDict, loaded |-> EmptyDict, todo |-> <<>>, pos |-> 0,
   calls |-> 0, raised |-> 0, resultado |-> <<>>,
   out |-> NoOut, again |-> FALSE, prevOut |-> NoOut]

\* the call has returned `out`
Returned(r, out) == [r EXCEPT !.pc = "done", !.out = out, !.resultado = <<>>]

\* lines 515-556 once both partitions carry their categories
Finish(r, df_expenses, df_non_expenses) ==
  [r EXCEPT !.pc = "done", !.df_expenses = df_expenses,
            !.df_non_expenses = df_non_expenses, !.resultado = <<>>,
            !.out = Summary(r.inp.categorization_method, df_expenses,
                            df_non_expenses, r.dataOk)]

\* lines 749-762, then line 513 and the rest of _run
ApplyCache(r) ==
  LET Cached(row) == FinalCategory(r.cache, row.descricao)
  IN  Finish(r, WithCategoria(r.df_expenses, Cached),
                WithCategoria(r.df_non_expenses, RendaCategory))

\* _categorize_with_regex_fallback and the regex branch of _run
RegexOnly(r, reply) ==
  LET Refined(row) == RefinedCategory(row, reply)
      Enhance(regex) ==
        IF r.inp.categorization_method # "ollama" /\ r.inp.llm_enhanced
        THEN WithCategoria(regex, Refined) ELSE regex
  IN  Finish(r, Enhance(WithCategoria(r.df_expenses, RegexCategory)),
                WithCategoria(r.df_non_expenses, RendaCategory))

\* _categorize_with_ollama up to its first LLM call, lines 665-715
OllamaStart(r) ==
  LET Loop(r1) ==
        IF Len(r1.todo) = 0 THEN ApplyCache(r1)
        ELSE IF r1.inp.block_size = 0
          THEN Returned(r1, Err("range() arg 3 must not be zero"))
        ELSE IF r1.inp.block_size < 0 THEN [r1 EXCEPT !.pc = "save"]
        ELSE [r1 EXCEPT !.pc = "llm"]
      Loaded(cache, transacoes) ==
        Loop([r EXCEPT !.cache = cache, !.loaded = cache,
                       !.todo = ToCategorize(transacoes, cache)])
  IN  IF ~clientOk THEN RegexOnly(r, RefineFailed)
      ELSE IF LoadRaises(file) THEN Returned(r, Err("Ran out of input"))
      ELSE Loaded(load_cache(file),
                  [i \in 1..Len(r.df_expenses) |-> r.df_expenses[i].descricao])

\* variant: a statement that came with categories is categorized again
StartedCategorizing(inp, reply, again, prevOut) ==
  LET Dispatch(prep, r) ==
        IF ~prep.ok THEN Returned(r, Err(prep.error))
        ELSE IF inp.categorization_method = "ollama" THEN OllamaStart(r)
        ELSE RegexOnly(r, reply)
      Prepared(prep) ==
        Dispatch(prep, [IdleRun EXCEPT !.inp = inp, !.again = again,
                                       !.prevOut = prevOut,
                                       !.dataOk = prep.dataOk,
                                       !.already = prep.already,
                                       !.df_expenses = prep.expenses,
                                       !.df_non_expenses = prep.non_expenses])
  IN  Prepared(Statements[inp])
\* _run from its call to its return or to its first LLM call
Started(inp, reply, again, prevOut) ==
  LET Dispatch(prep, r) ==
        IF ~prep.ok THEN Returned(r, Err(prep.error))
        ELSE IF prep.already THEN Finish(r, prep.expenses, prep.non_expenses)
        ELSE IF inp.categorization_method = "ollama" THEN OllamaStart(r)
        ELSE RegexOnly(r, reply)
      Prepared(prep) ==
        Dispatch(prep, [IdleRun EXCEPT !.inp = inp, !.again = again,
                                       !.prevOut = prevOut,
                                       !.dataOk = prep.dataOk,
                                       !.already = prep.already,
                                       !.df_expenses = prep.expenses,
                                       !.df_non_expenses = prep.non_expenses])
  IN  Prepared(Statements[inp])

RepliesFor(inp) ==
  IF inp.categorization_method # "ollama" /\ inp.llm_enhanced
  THEN RefineReplies ELSE {RefineFailed}

(***************************************************************************)
(* Actions                                                                 *)
(***************************************************************************)
Init ==
  /\ file = NoFile
  /\ clientOk \in BOOLEAN
  /\ runs = 0
  /\ run = [p \in Procs |-> IdleRun]
  /\ call = NoCall

\* a caller invokes the tool
StartRun(p) ==
  /\ run[p].pc = "idle"
  /\ runs < MaxRuns
  /\ \E inp \in Inputs : \E reply \in RepliesFor(inp) :
       run' = [run EXCEPT ![p] = Started(inp, reply, FALSE, NoOut)]
  /\ runs' = runs + 1
  /\ UNCHANGED <<file, clientOk, call>>

\* the caller invokes the tool again with the arguments and the statement
\* of the call that has just returned
Rerun(p) ==
  /\ run[p].pc = "done"
  /\ runs < MaxRuns
  /\ \E reply \in RepliesFor(run[p].inp) :
       run' = [run EXCEPT ![p] = Started(run[p].inp, reply, TRUE, run[p].out)]
  /\ runs' = runs + 1
  /\ UNCHANGED <<file, clientOk, call>>

\* variant: the loop index advances by one description
AfterBlockByOne(r, cache) ==
  [r EXCEPT !.cache = cache, !.pos = @ + 1, !.calls = @ + 1,
            !.pc = IF r.pos + 1 >= Len(r.todo) THEN "save" ELSE "llm"]
\* the end of one iteration of the loop of line 717
AfterBlock(r, cache) ==
  [r EXCEPT !.cache = cache, !.pos = @ + r.inp.block_size, !.calls = @ + 1,
            !.pc = IF r.pos + r.inp.block_size >= Len(r.todo) THEN "save" ELSE "llm"]

\* llm.invoke returns for the current block, lines 718-736
LLMReply(p) ==
  /\ run[p].pc = "llm"
  /\ \E response \in Responses :
       run' = [run EXCEPT ![p] =
                 [AfterBlock(@, BlockAnswered(@.cache,
                                  Bloco(@.todo, @.pos, @.inp.block_size), response))
                    EXCEPT !.resultado =
                      parse_llm_categorization_response(
                        response, Bloco(run[p].todo, run[p].pos, run[p].inp.block_size))]]
  /\ UNCHANGED <<file, clientOk, runs, call>>

\* llm.invoke raises for the current block, lines 738-744
LLMRaise(p) ==
  /\ run[p].pc = "llm"
  /\ run' = [run EXCEPT ![p] =
               [AfterBlock(@, BlockFailed(@.cache, Bloco(@.todo, @.pos, @.inp.block_size)))
                  EXCEPT !.raised = @ + 1, !.resultado = <<>>]]
  /\ UNCHANGED <<file, clientOk, runs, call>>

\* save_cache: open(path, 'wb') truncates the file
SaveOpen(p) ==
  /\ run[p].pc = "save"
  /\ file' = Truncated(p)
  /\ run' = [run EXCEPT ![p].pc = "dump"]
  /\ UNCHANGED <<clientOk, runs, call>>

\* save_cache: pickle.dump writes the mapping; then lines 749-762 and the
\* rest of _run
SaveDump(p) ==
  /\ run[p].pc = "dump"
  /\ file' = Dumped(run[p].cache, p)
  /\ run' = [run EXCEPT ![p] = ApplyCache(@)]
  /\ UNCHANGED <<clientOk, runs, call>>

\* the caller takes the result
Return(p) ==
  /\ run[p].pc = "done"
  /\ run' = [run EXCEPT ![p] = IdleRun]
  /\ UNCHANGED <<file, clientOk, runs, call>>

Step(p) ==
  \/ StartRun(p)
  \/ Rerun(p)
  \/ LLMReply(p)
  \/ LLMRaise(p)
  \/ SaveOpen(p)
  \/ SaveDump(p)
  \/ Return(p)

\* one caller at a time
Next == Step("p1")

Spec == Init /\ [][Next]_vars

\* the call of p is inside _categorize_with_ollama, between its first
\* llm.invoke and the end of save_cache
Busy(p) == run[p].pc \in {"llm", "save", "dump"}

\* llm.invoke returns or raises, and the writes of save_cache complete
Advance(p) == LLMReply(p) \/ LLMRaise(p) \/ SaveOpen(p) \/ SaveDump(p)

\* weak fairness of Advance(p), that is WF_vars(Advance(p)), written with
\* Busy(p) for ENABLED <<Advance(p)>>_vars: in each of the three positions
\* one of the four steps can be taken and changes the position or the
\* invocation count
Progress(p) == []<>(~Busy(p)) \/ []<><<Advance(p)>>_vars


(***************************************************************************)
(* Two callers on one cache path                                           *)
(***************************************************************************)
SharedRows == { <<"2", "uber", "-45,90">>, <<"1", "loja - sp - 0001", "-10.5">> }

\* LLM-mode calls on statements of uncached expenses that fit one block
SharedInputs ==
  {inp \in Inputs :
     /\ inp.categorization_method = "ollama"
     /\ inp.df.header = <<"Data", "Descrição", "Valor">>
     /\ inp.block_size >= Len(inp.df.rows)
     /\ Len(inp.df.rows) >= 1
     /\ \A i \in 1..Len(inp.df.rows) : inp.df.rows[i] \in SharedRows}

InitShared ==
  /\ file = NoFile
  /\ clientOk = TRUE
  /\ runs = 0
  /\ run = [p \in Procs |-> IdleRun]
  /\ call = NoCall

\* a caller invokes the tool while the other may be inside it
StartShared(p) ==
  /\ run[p].pc = "idle"
  /\ runs < MaxRuns
  /\ \E inp \in SharedInputs :
       run' = [run EXCEPT ![p] = Started(inp, RefineFailed, FALSE, NoOut)]
  /\ runs' = runs + 1
  /\ UNCHANGED <<file, clientOk, call>>

StepShared(p) ==
  \/ StartShared(p)
  \/ LLMReply(p)
  \/ LLMRaise(p)
  \/ SaveOpen(p)
  \/ SaveDump(p)
  \/ Return(p)

NextShared == \E p \in Procs : StepShared(p)

Shared == InitShared /\ [][NextShared]_vars

(***************************************************************************)
(* Direct calls of the functions of the module                            *)
(***************************************************************************)
\* " - "-delimited segments of a description
MaxSegments == 4

\* columns of a statement
MaxColumns == 4

Called(fn, arg) == [fn |-> fn, arg |-> arg, ret |-> "", pc |-> "called"]

MoneySeparators == {",", "."}

\* amount cells: the documented ones and digit groups around separators
MoneyStrings ==
  {"1.234,56", "1,234.56", "123,45", "abc"}
  \cup {a \o s \o b : a \in {"1", "12", "123"}, s \in MoneySeparators,
                       b \in {"2", "23", "234", "2345"}}
  \cup {"1" \o s1 \o b \o s2 \o c : s1 \in MoneySeparators, s2 \in MoneySeparators,
                                    b \in {"23", "234"}, c \in {"56", "567"}}

SegmentPool == {"loja", " sp ", ""}

\* raw descriptions; "" is also the absent description
RawDescriptions ==
  {Join(segs, " - ") : segs \in SeqsUpTo(SegmentPool, MaxSegments)}

BlockDescriptions == {"uber", "loja", "loja - sp", "loja centro"}

\* what a response line has on the left of the separator: a description of
\* the block or a variation of one
ResponseKeys == BlockDescriptions \cup {"ubre", "pix"}

\* the response lines before the last one
EarlierLines == {"", "uber - Lazer\n"}

\* a non-empty block, the earlier lines of the response, and the left-hand
\* side d and the category of its last line `d - C`
ParserCalls ==
  UNION {{[bloco |-> b, before |-> pre, d |-> d, cat |-> c] :
            pre \in EarlierLines, d \in ResponseKeys, c \in {"Lazer", "Outros"}} :
           b \in SeqsUpTo(BlockDescriptions, MaxRows) \ {<<>>}}

\* descriptions given to _categorize; "" is also the absent description
RegexDescriptions ==
  {"", "loja", "UBER pix", "pix uber", "Supermercado Claro", "claro supermercado",
   "Pagamento Netflix", "FARMACIA", "posto 99", "curso xp", "Metrô", "estorno"}

ColumnNames == {"data", "Descrição", "valor", "x", "y", "amount"}

\* headers of three columns and more, no name twice
Headers ==
  {h \in UNION {[1..n -> ColumnNames] : n \in 3..MaxColumns} :
     \A i, j \in 1..Len(h) : h[i] = h[j] => i = j}

StatementOf(header) ==
  [header |-> header, rows |-> << [i \in 1..Len(header) |-> "1"] >>]

CacheKeys == {"uber", "loja - sp", "pix"}

\* non-empty mappings from canonical keys to labels
Mappings ==
  UNION {[ks -> {"Lazer", "Outros"}] : ks \in (SUBSET CacheKeys) \ {{}}}

\* what the file at the path may hold before the call
PriorFiles ==
  {NoFile, Truncated("p1"), Dumped([k \in {"uber"} |-> "Lazer"], "p1"),
   Dumped([k \in CacheKeys |-> "Outros"], "p1")}

InitCalls ==
  /\ clientOk = FALSE
  /\ runs = 0
  /\ run = [p \in Procs |-> IdleRun]
  /\ \/ file = NoFile /\ call \in {Called("normalize_monetary_value", v) : v \in MoneyStrings}
     \/ file = NoFile /\ call \in {Called("clean_transaction_name", t) : t \in RawDescriptions}
     \/ file = NoFile /\ call \in {Called("_clean_description", t) : t \in RawDescriptions}
     \/ file = NoFile
          /\ call \in {Called("parse_llm_categorization_response", c) : c \in ParserCalls}
     \/ file = NoFile /\ call \in {Called("_normalize_columns", h) : h \in Headers}
     \/ file = NoFile /\ call \in {Called("_categorize", d) : d \in RegexDescriptions}
     \/ /\ file \in PriorFiles
        /\ call \in {Called("save_cache", [mapping |-> m, before |-> file]) : m \in Mappings}

Returns(ret) == [call EXCEPT !.ret = ret, !.pc = "returned"]

MoneyCall ==
  /\ call.fn = "normalize_monetary_value" /\ call.pc = "called"
  /\ call' = Returns(normalize_monetary_value(call.arg))
  /\ UNCHANGED <<file, clientOk, runs, run>>

CleanNameCall ==
  /\ call.fn = "clean_transaction_name" /\ call.pc = "called"
  /\ call' = Returns(clean_transaction_name(call.arg))
  /\ UNCHANGED <<file, clientOk, runs, run>>

CleanDescriptionCall ==
  /\ call.fn = "_clean_description" /\ call.pc = "called"
  /\ call' = Returns(CleanDescription(call.arg))
  /\ UNCHANGED <<file, clientOk, runs, run>>

ParseCall ==
  /\ call.fn = "parse_llm_categorization_response" /\ call.pc = "called"
  /\ call' = Returns(parse_llm_categorization_response(
                        call.arg.before \o call.arg.d \o " - " \o call.arg.cat,
                        call.arg.bloco))
  /\ UNCHANGED <<file, clientOk, runs, run>>

NormalizeCall ==
  /\ call.fn = "_normalize_columns" /\ call.pc = "called"
  /\ call' = Returns(NormalizeColumns(StatementOf(call.arg)))
  /\ UNCHANGED <<file, clientOk, runs, run>>

\* _categorize(d), called twice on the same description
CategorizeCall ==
  /\ call.fn = "_categorize" /\ call.pc = "called"
  /\ call' = Returns([first |-> Categorize(call.arg), second |-> Categorize(call.arg)])
  /\ UNCHANGED <<file, clientOk, runs, run>>

\* save_cache(m, p): open(p, 'wb')
SaveCacheOpen ==
  /\ call.fn = "save_cache" /\ call.pc = "called"
  /\ file' = Truncated("call")
  /\ call' = [call EXCEPT !.pc = "opened"]
  /\ UNCHANGED <<clientOk, runs, run>>

\* save_cache(m, p): pickle.dump and the return
SaveCacheDump ==
  /\ call.fn = "save_cache" /\ call.pc = "opened"
  /\ file' = Dumped(call.arg.mapping, "call")
  /\ call' = [call EXCEPT !.pc = "saved"]
  /\ UNCHANGED <<clientOk, runs, run>>

\* load_cache(p) after the save
LoadCacheCall ==
  /\ call.fn = "save_cache" /\ call.pc = "saved"
  /\ ~LoadRaises(file)
  /\ call' = Returns(load_cache(file))
  /\ UNCHANGED <<file, clientOk, runs, run>>

NextCalls ==
  \/ MoneyCall
  \/ CleanNameCall
  \/ CleanDescriptionCall
  \/ ParseCall
  \/ NormalizeCall
  \/ CategorizeCall
  \/ SaveCacheOpen
  \/ SaveCacheDump
  \/ LoadCacheCall

Calls == InitCalls /\ [][NextCalls]_vars

(***************************************************************************)
(* One call in the LLM mode, every step of a started call taken            *)
(***************************************************************************)
\* the cache file is absent or holds a complete dump
InitLive ==
  /\ file \in {f \in PriorFiles : ~LoadRaises(f)}
  /\ clientOk \in BOOLEAN
  /\ runs = 0
  /\ run = [p \in Procs |-> IdleRun]
  /\ call = NoCall

\* the one call of a behaviour
StartLive(p) ==
  /\ run[p].pc = "idle"
  /\ runs = 0
  /\ \E inp \in LiveInputs :
       run' = [run EXCEPT ![p] = Started(inp, RefineFailed, FALSE, NoOut)]
  /\ runs' = runs + 1
  /\ UNCHANGED <<file, clientOk, call>>

NextLive == StartLive("p1") \/ Advance("p1") \/ Return("p1")

Live == InitLive /\ [][NextLive]_vars /\ Progress("p1")

(***************************************************************************)
(* Properties                                                              *)
(***************************************************************************)
\* the closed category set of the categorization prompt, lines 343-356
CategorySet ==
  {"Alimentação", "Transporte", "Saúde", "Mercado", "Educação", "Lazer", "Moradia",
   "Investimentos", "Streaming", "Transferências", "Renda", "Serviços", "Outros"}

Done(p) == run[p].pc = "done"

OkOut(p) == Done(p) /\ run[p].out.ok

\* the call went through _categorize_with_ollama with a usable client
LLMMode(p) ==
  /\ run[p].inp.categorization_method = "ollama"
  /\ clientOk
  /\ ~run[p].already

Transacoes(p) == run[p].out.transacoes

ExpenseRowsOut(p) == {i \in 1..Len(Transacoes(p)) : IsExpense(Transacoes(p)[i])}

\* C1: in every ok:true payload every transaction has a non-null category.
C1_EveryTransactionCategorized ==
  \A p \in Procs :
    OkOut(p) => \A i \in 1..Len(Transacoes(p)) : Transacoes(p)[i].categoria # None

\* C2: a second LLM-mode run on the same input, from the cache the first
\* run left, returns the same categories and invokes the LLM not once.
C2_Idempotent ==
  \A p \in Procs :
    (Done(p) /\ run[p].again /\ run[p].inp.categorization_method = "ollama")
      => /\ run[p].out.ok = run[p].prevOut.ok
         /\ run[p].out.transacoes = run[p].prevOut.transacoes
         /\ run[p].calls = 0

\* the repeated run returns labels that only the LLM of the first run gave
C2_Witness ==
  \E p \in Procs :
    /\ OkOut(p) /\ run[p].again /\ LLMMode(p) /\ run[p].calls = 0
    /\ \E i \in ExpenseRowsOut(p) :
         Transacoes(p)[i].categoria # Categorize(Transacoes(p)[i].descricao)

AllBlocksRaised(p) == OkOut(p) /\ LLMMode(p) /\ run[p].raised = run[p].calls

C4_OutrosResubmitted ==
  \A p \in Procs :
    (LLMMode(p) /\ run[p].pc \in {"llm", "save", "dump", "done"})
      => \A i \in 1..Len(run[p].df_expenses) :
           LET d == run[p].df_expenses[i].descricao
           IN  (d \in DOMAIN run[p].loaded /\ run[p].loaded[d] = "Outros")
                 => InSeq(d, run[p].todo)

CurrentBlock(p) == Bloco(run[p].todo, run[p].pos, run[p].inp.block_size)

\* C5: no description of a block about to be sent has a cache entry other
\* than "Outros".
C5_NoResolvedKeySubmitted ==
  \A p \in Procs :
    run[p].pc = "llm"
      => \A i \in 1..Len(CurrentBlock(p)) :
           LET k == clean_transaction_name(CurrentBlock(p)[i])
           IN  ~(k \in DOMAIN run[p].cache /\ run[p].cache[k] # "Outros")

Labels(d) == {d[k] : k \in DOMAIN d}

\* C6: every label in a cache (in memory or on disk) and every label that
\* a run assigned is in the closed category set.
C6_LabelsInCategorySet ==
  /\ Labels(load_cache(file)) \subseteq CategorySet
  /\ \A p \in Procs :
       /\ Labels(run[p].cache) \subseteq CategorySet
       /\ (OkOut(p) /\ ~run[p].already)
            => \A i \in 1..Len(Transacoes(p)) :
                 Transacoes(p)[i].categoria \in CategorySet

\* C7: n_despesas + n_receitas = n_transacoes, the expense partition holds
\* exactly the payload's rows below 0 and the income partition its rows at
\* or above 0.
C7_Partition ==
  \A p \in Procs :
    OkOut(p)
      => /\ run[p].out.n_despesas + run[p].out.n_receitas = run[p].out.n_transacoes
         /\ run[p].out.n_transacoes = Len(Transacoes(p))
         /\ run[p].out.n_despesas = Len(run[p].df_expenses)
         /\ run[p].out.n_receitas = Len(run[p].df_non_expenses)
         /\ \A i \in 1..Len(run[p].df_expenses) :
              ~run[p].df_expenses[i].valor.nan /\ run[p].df_expenses[i].valor.m < 0
         /\ \A i \in 1..Len(run[p].df_non_expenses) :
              ~run[p].df_non_expenses[i].valor.nan
              /\ run[p].df_non_expenses[i].valor.m >= 0

\* both partitions are inhabited and the income one holds an amount of 0
C7_Witness ==
  \E p \in Procs :
    /\ OkOut(p)
    /\ run[p].out.n_despesas >= 1
    /\ \E i \in 1..Len(run[p].df_non_expenses) : run[p].df_non_expenses[i].valor.m = 0

\* C8: every payload row whose amount is at least 0 has category "Renda".
C8_NonExpenseIsRenda ==
  \A p \in Procs :
    OkOut(p)
      => \A i \in 1..Len(Transacoes(p)) :
           IsNonExpense(Transacoes(p)[i]) => Transacoes(p)[i].categoria = "Renda"

\* C9: each category of the expense rows has a line with the sum of the
\* expense rows that carry it, and a "Renda" line holds the sum of the
\* income partition (for a run that did the categorization itself).
C9_TotalsFollowPartition ==
  \A p \in Procs :
    (OkOut(p) /\ ~run[p].already)
      => LET totals == run[p].out.totais_por_categoria
         IN  /\ \A i \in 1..Len(run[p].df_expenses) :
                  LET c == run[p].df_expenses[i].categoria
                  IN  c # "Renda"
                        => /\ c \in DOMAIN totals
                           /\ totals[c] = SumValor(RowsOfCategory(run[p].df_expenses, c))
             /\ "Renda" \in DOMAIN totals
                  => totals["Renda"] = SumValor(run[p].df_non_expenses)

\* C10: a returned call gives ok:true with one transaction per input row, or
\* ok:false with a message; bad extension, unreadable and empty input give
\* ok:false.
C10_CompleteOrError ==
  \A p \in Procs :
    Done(p)
      => /\ run[p].out.ok
              => /\ run[p].out.n_transacoes = Len(run[p].inp.df.rows)
                 /\ Len(Transacoes(p)) = Len(run[p].inp.df.rows)
         /\ ~run[p].out.ok => run[p].out.error # ""
         /\ (run[p].inp.ext # ".csv" \/ ~run[p].inp.readable
               \/ Len(run[p].inp.df.rows) = 0) => ~run[p].out.ok

\* C11: load_cache after save_cache(m, p) returns a mapping equal to m,
\* whatever the file at p held before.
C11_RoundTrip ==
  (call.fn = "save_cache" /\ call.pc = "returned") => call.ret = call.arg.mapping

\* a mapping of several keys was saved over a complete dump of another
\* mapping and loaded again
C11_Witness ==
  /\ call.fn = "save_cache" /\ call.pc = "returned"
  /\ Cardinality(DOMAIN call.arg.mapping) >= 2
  /\ call.arg.before.exists /\ call.arg.before.intact
  /\ load_cache(call.arg.before) # call.arg.mapping

MoneyReturned == call.fn = "normalize_monetary_value" /\ call.pc = "returned"

\* C15: "1.234,56" gives 1234.56, "1,234.56" gives 1234.56, "123,45" gives
\* 123.45 and "abc" gives 0.0.
C15_DocumentedValues ==
  MoneyReturned
    => /\ call.arg = "1.234,56" => call.ret = Flt(1234560)
       /\ call.arg = "1,234.56" => call.ret = Flt(1234560)
       /\ call.arg = "123,45" => call.ret = Flt(123450)
       /\ call.arg = "abc" => call.ret = Flt(0)

\* C16: with one comma and no dot the comma is a thousands separator when
\* more than 3 digits remain without it and the decimal separator
\* otherwise; with several commas the commas are removed.
C16_DigitCountHeuristic ==
  MoneyReturned
    => /\ (Count(call.arg, ",") = 1 /\ Count(call.arg, ".") = 0)
            => call.ret =
                 IF Len(Replace(call.arg, ",", "")) > 3
                 THEN PyFloat(Replace(call.arg, ",", "")).val
                 ELSE PyFloat(Replace(call.arg, ",", ".")).val
       /\ Count(call.arg, ",") > 1
            => call.ret = PyFloat(Replace(call.arg, ",", "")).val

\* C17: for a table of at least three columns the result has the columns
\* `data`, `descricao` and `valor`, each exactly once.
C17_CanonicalColumns ==
  (call.fn = "_normalize_columns" /\ call.pc = "returned")
    => /\ call.ret.ok
       /\ \A name \in {"data", "descricao", "valor"} :
            Cardinality(ColumnIndexes(call.ret.header, name)) = 1

\* the first two segments of a description of more than two segments, the
\* description itself otherwise
FirstTwoSegments(d) ==
  IF Len(Split(d, " - ")) > 2
  THEN Split(d, " - ")[1] \o " - " \o Split(d, " - ")[2]
  ELSE d

CleanerReturned ==
  call.fn \in {"clean_transaction_name", "_clean_description"} /\ call.pc = "returned"

\* the cache key of a raw description of a statement
CacheKey(d) == clean_transaction_name(CleanDescription(d))

\* the two descriptions have the same first two segments
SameFirstTwo(d, e) ==
  /\ Len(Split(d, " - ")) >= 2 /\ Len(Split(e, " - ")) >= 2
  /\ Take(Split(d, " - "), 2) = Take(Split(e, " - "), 2)

\* C19 as claimed: both cleaners return the first two segments of a
\* description of more than two segments and the description itself
\* otherwise; descriptions equal up to the second segment have one key.
C19_FirstTwoSegments ==
  CleanerReturned
    => /\ call.ret = FirstTwoSegments(call.arg)
       /\ \A e \in RawDescriptions :
            SameFirstTwo(call.arg, e) => CacheKey(e) = CacheKey(call.arg)

\* C19 amended: clean_transaction_name returns the first two segments of a
\* description of more than two segments and the description itself
\* otherwise; _clean_description does the same on the description without
\* its surrounding whitespace and strips the result; descriptions that,
\* without their surrounding whitespace, are equal up to the second segment
\* have one key.
C19_FirstTwoSegmentsStripped ==
  CleanerReturned
    => /\ call.fn = "clean_transaction_name" => call.ret = FirstTwoSegments(call.arg)
       /\ call.fn = "_clean_description"
            => call.ret = Strip(FirstTwoSegments(Strip(call.arg)))
       /\ \A e \in RawDescriptions :
            SameFirstTwo(Strip(call.arg), Strip(e)) => CacheKey(e) = CacheKey(call.arg)

\* a description of four segments with whitespace around was cleaned, and
\* another raw description has the same first two segments
C19_Witness ==
  /\ CleanerReturned /\ call.fn = "_clean_description"
  /\ Len(Split(call.arg, " - ")) = 4
  /\ Strip(call.arg) # call.arg
  /\ call.ret # ""
  /\ \E e \in RawDescriptions : e # call.arg /\ SameFirstTwo(Strip(call.arg), Strip(e))

\* C20: the response line `d - C` for a description d of the block yields
\* the pair (d, C) and no other pair.
C20_LineYieldsItsPair ==
  (/\ call.fn = "parse_llm_categorization_response" /\ call.pc = "returned"
   /\ call.arg.before = ""
   /\ InSeq(call.arg.d, call.arg.bloco))
    => call.ret = << <<call.arg.d, call.arg.cat>> >>

\* C12: a load_cache that runs while another caller is inside save_cache
\* returns a complete mapping: no call fails on an empty or partial file.
C12_LoadSeesCompleteMapping ==
  \A p \in Procs : ~(Done(p) /\ ~run[p].out.ok /\ run[p].out.error = "Ran out of input")

\* the call of p went through save_cache
Saved(p) == Done(p) /\ LLMMode(p) /\ Len(run[p].todo) > 0

\* C13: when the callers have finished, the persisted cache equals the
\* in-memory mapping of the caller that saved last; an entry that only the
\* other caller added, and that the last saver had not loaded, is not in it.
C13_LastWriterWins ==
  \A p \in Procs :
    (Saved(p) /\ file.by = p /\ file.intact)
      => /\ load_cache(file) = run[p].cache
         /\ \A q \in Procs \ {p} :
              Saved(q)
                => \A k \in DOMAIN run[q].cache :
                     (k \notin DOMAIN run[p].loaded /\ k \notin DOMAIN run[p].cache)
                       => k \notin DOMAIN load_cache(file)

\* both callers saved; an entry that the first saver added is not in the file
C13_Witness ==
  \E p \in Procs : \E q \in Procs \ {p} :
    /\ Saved(p) /\ Saved(q) /\ file.by = p /\ file.intact
    /\ \E k \in DOMAIN run[q].cache :
         /\ k \notin DOMAIN run[q].loaded
         /\ k \notin DOMAIN load_cache(file)

\* C14: while a block after the first is being processed, the cache file
\* holds the assignments of the blocks before it.
C14_BlocksPersisted ==
  \A p \in Procs :
    (run[p].pc = "llm" /\ run[p].pos > 0)
      => /\ ~LoadRaises(file)
         /\ \A k \in DOMAIN run[p].cache :
              k \in DOMAIN load_cache(file) /\ load_cache(file)[k] = run[p].cache[k]

\* C18: with one caller at a time, the keys the run loaded from the cache
\* file are in the file during and after the run.
C18_KeysNeverRemoved ==
  \A p \in Procs :
    (LLMMode(p) /\ run[p].pc \in {"llm", "save", "done"})
      => /\ ~LoadRaises(file)
         /\ DOMAIN run[p].loaded \subseteq DOMAIN load_cache(file)

\* a run that loaded a non-empty cache saved a larger one
C18_Witness ==
  \E p \in Procs :
    /\ Saved(p) /\ file.by = p /\ file.intact
    /\ DOMAIN run[p].loaded # {}
    /\ DOMAIN run[p].loaded # DOMAIN load_cache(file)

ParserReturned == call.fn = "parse_llm_categorization_response" /\ call.pc = "returned"

\* the pairs that the lines before the last one gave
EarlierPairs == parse_llm_categorization_response(call.arg.before, call.arg.bloco)

\* the pairs that the last line of the response gave
LastLinePairs == SubSeq(call.ret, Len(EarlierPairs) + 1, Len(call.ret))

\* the left-hand side of the last line is no original, in any case
NoExactMatch ==
  \A i \in 1..Len(OriginalKeys(call.arg.bloco)) :
    Lower(OriginalKeys(call.arg.bloco)[i]) # Lower(call.arg.d)

\* C21: a response line whose left-hand side matches no original exactly or
\* case-insensitively gives at most one pair, and only for an original that
\* no earlier line has matched and whose character-set Jaccard similarity
\* to the left-hand side is above 0.8.
C21_PartialMatchIsJaccardOnUnmatched ==
  (ParserReturned /\ NoExactMatch)
    => /\ Len(LastLinePairs) <= 1
       /\ \A i \in 1..Len(LastLinePairs) :
            /\ \A j \in 1..Len(EarlierPairs) : EarlierPairs[j][1] # LastLinePairs[i][1]
            /\ SimilarityAbove(Lower(call.arg.d), Lower(LastLinePairs[i][1]))

\* caller p processes its current block in this step
BlockStep(p) == run[p].pc = "llm" /\ run'[p].calls = run[p].calls + 1

\* transacoes_processadas of line 731
Processed(resultado) ==
  {clean_transaction_name(resultado[i][1]) : i \in 1..Len(resultado)}

\* C22: when a block has been processed, by a response or by a raise, every
\* description of the block has an entry in the in-memory cache, and a
\* description that the parsed response did not cover and that had no entry
\* before the block holds its RegexCategorizer result.
C22_BlockFullyCached ==
  [][\A p \in Procs :
       BlockStep(p)
         => \A i \in 1..Len(CurrentBlock(p)) :
              LET k == clean_transaction_name(CurrentBlock(p)[i])
              IN  /\ k \in DOMAIN run'[p].cache
                  /\ (k \notin Processed(run'[p].resultado) /\ k \notin DOMAIN run[p].cache)
                       => run'[p].cache[k] = Categorize(CurrentBlock(p)[i])]_vars

\* a block of two descriptions was answered; the response covered one of
\* them with a label of its own and the other has its regex label
C22_Witness ==
  \E p \in Procs :
    /\ run[p].pc = "save" /\ run[p].calls = 1 /\ Len(run[p].todo) = 2
    /\ \E i, j \in 1..2 :
         /\ run[p].todo[i] \in Processed(run[p].resultado)
         /\ run[p].cache[run[p].todo[i]] # Categorize(run[p].todo[i])
         /\ run[p].todo[j] \notin Processed(run[p].resultado)
         /\ run[p].cache[run[p].todo[j]] = Categorize(run[p].todo[j])

\* ceil(n / block_size)
CeilDiv(n, block_size) == (n + block_size - 1) \div block_size

\* the blocks that range(0, n, block_size) and the slice of line 718 give
Blocks(todo, block_size) ==
  [j \in 1..CeilDiv(Len(todo), block_size) |-> Bloco(todo, (j - 1) * block_size, block_size)]

RECURSIVE Concat(_)
Concat(qs) == IF Len(qs) = 0 THEN <<>> ELSE Head(qs) \o Concat(Tail(qs))

\* the run of p is in or past the block loop with a positive block_size
InBlocks(p) ==
  /\ LLMMode(p) /\ run[p].pc \in {"llm", "save", "dump", "done"}
  /\ run[p].inp.block_size > 0 /\ Len(run[p].todo) > 0

\* C23: for a positive block_size the uncached descriptions are split into
\* consecutive blocks of block_size elements, the last possibly shorter,
\* that together are the list; the LLM is invoked once per block, a failed
\* block is not sent again, a run makes ceil(n / block_size) invocations
\* and returns.
C23_OneInvocationPerBlock ==
  /\ [](\A p \in Procs :
          InBlocks(p)
            => LET bs == run[p].inp.block_size
                   blocks == Blocks(run[p].todo, bs)
               IN  /\ Concat(blocks) = run[p].todo
                   /\ \A j \in 1..Len(blocks) :
                        Len(blocks[j]) = bs \/ (j = Len(blocks) /\ Len(blocks[j]) \in 1..bs)
                   /\ run[p].raised <= run[p].calls
                   /\ run[p].pc = "llm"
                        => /\ run[p].calls < Len(blocks)
                           /\ CurrentBlock(p) = blocks[run[p].calls + 1]
                   /\ run[p].pc # "llm" => run[p].calls = Len(blocks))
  /\ (run["p1"].pc = "llm") ~> (run["p1"].pc = "done")

\* a run of two blocks of one description returned after two invocations,
\* of which one raised
C23_Witness ==
  \E p \in Procs :
    /\ InBlocks(p) /\ Done(p)
    /\ run[p].inp.block_size = 1 /\ Len(run[p].todo) = 2
    /\ run[p].calls = 2 /\ run[p].raised = 1

\* C24: once an LLM invocation of a run has failed, no further block of the
\* run is sent to the LLM, and the run returns ok:true.
C24_FailureEndsLLMUse ==
  \A p \in Procs :
    (LLMMode(p) /\ run[p].raised >= 1)
      => /\ run[p].pc # "llm"
         /\ Done(p) => run[p].out.ok

\* C25: in the LLM mode, with or without a usable LLM client, an expense
\* row whose cleaned description has an entry other than "Outros" in the
\* cache file as it was when the call started carries that entry.
C25_CachedCategoryWins ==
  \A p \in Procs :
    (OkOut(p) /\ run[p].inp.categorization_method = "ollama" /\ ~run[p].already)
      => LET start == IF clientOk THEN run[p].loaded ELSE load_cache(file)
         IN  \A i \in 1..Len(run[p].df_expenses) :
               LET k == clean_transaction_name(run[p].df_expenses[i].descricao)
               IN  (k \in DOMAIN start /\ start[k] # "Outros")
                     => run[p].df_expenses[i].categoria = start[k]

\* the rules of CATEGORY_MAP whose pattern is found in the text
MatchingRules(text) ==
  {i \in 1..Len(CATEGORY_MAP) : RuleMatches(CATEGORY_MAP[i], text)}

\* C26: _categorize returns the category of the first rule of CATEGORY_MAP,
\* in its order, whose pattern is found in the lowercased description, and
\* "Outros" when no rule matches; a second call with the same description
\* returns the same category.
C26_FirstMatchingRule ==
  (call.fn = "_categorize" /\ call.pc = "returned")
    => LET hits == MatchingRules(Lower(call.arg))
       IN  /\ hits = {} => call.ret.first = "Outros"
           /\ \A i \in hits :
                (\A j \in hits : i <= j) => call.ret.first = CATEGORY_MAP[i].cat
           /\ call.ret.second = call.ret.first

\* a description with capital letters that two rules of different
\* categories match
C26_Witness ==
  /\ call.fn = "_categorize" /\ call.pc = "returned"
  /\ Lower(call.arg) # call.arg
  /\ \E i, j \in MatchingRules(Lower(call.arg)) :
       /\ i < j
       /\ CATEGORY_MAP[i].cat # CATEGORY_MAP[j].cat
       /\ call.ret.first = CATEGORY_MAP[i].cat

\* the labels that the cache before a block and then the pairs of the
\* parsed response, in order, give for the key k
LabelsFor(cache, resultado, k) ==
  (IF k \in DOMAIN cache THEN <<cache[k]>> ELSE <<>>)
  \o [i \in 1..Cardinality({j \in 1..Len(resultado) :
                               clean_transaction_name(resultado[j][1]) = k}) |->
        resultado[CHOOSE j \in 1..Len(resultado) :
                    /\ clean_transaction_name(resultado[j][1]) = k
                    /\ Cardinality({h \in 1..j :
                                      clean_transaction_name(resultado[h][1]) = k}) = i][2]]

\* the first label other than "Outros", "Outros" when there is none
FirstResolved(labels) ==
  IF \E i \in 1..Len(labels) : labels[i] # "Outros"
  THEN labels[CHOOSE i \in 1..Len(labels) :
                /\ labels[i] # "Outros"
                /\ \A j \in 1..(i - 1) : labels[j] = "Outros"]
  ELSE "Outros"

\* C27: a cache entry other than "Outros" is never overwritten. In a step
\* that processes a block every key with an entry keeps it unless the entry
\* is "Outros" and the response names the key, and a key that the response
\* names holds the first label other than "Outros" among its entry and the
\* labels of the response in order; with one caller at a time, an entry
\* other than "Outros" that a run loaded is in its cache and in the file
\* it saves, with the same label.
C27_ResolvedEntryKept ==
  /\ [][\A p \in Procs :
          BlockStep(p)
            => /\ \A k \in DOMAIN run[p].cache :
                    (run[p].cache[k] # "Outros" \/ k \notin Processed(run'[p].resultado))
                      => /\ k \in DOMAIN run'[p].cache
                         /\ run'[p].cache[k] = run[p].cache[k]
               /\ \A k \in Processed(run'[p].resultado) :
                    /\ k \in DOMAIN run'[p].cache
                    /\ run'[p].cache[k] =
                         FirstResolved(LabelsFor(run[p].cache, run'[p].resultado, k))]_vars
  /\ [](\A p \in Procs :
          (LLMMode(p) /\ run[p].pc \in {"llm", "save", "dump", "done"})
            => \A k \in DOMAIN run[p].loaded :
                 run[p].loaded[k] # "Outros"
                   => /\ k \in DOMAIN run[p].cache
                      /\ run[p].cache[k] = run[p].loaded[k]
                      /\ (Saved(p) /\ file.by = p /\ file.intact)
                           => /\ k \in DOMAIN load_cache(file)
                              /\ load_cache(file)[k] = run[p].loaded[k])

\* the response of a block gave two labels other than "Outros" for one key,
\* the cache holds the first, and the run had loaded another entry other
\* than "Outros"
C27_Witness ==
  \E p \in Procs :
    /\ LLMMode(p) /\ run[p].pc = "save"
    /\ \E k \in DOMAIN run[p].loaded : run[p].loaded[k] # "Outros"
    /\ \E i, j \in 1..Len(run[p].resultado) :
         /\ i < j
         /\ run[p].resultado[i][1] = run[p].resultado[j][1]
         /\ run[p].resultado[i][2] \notin {"Outros", run[p].resultado[j][2]}
         /\ run[p].resultado[j][2] # "Outros"
         /\ run[p].cache[run[p].resultado[i][1]] = run[p].resultado[i][2]

\* the sum of the values of totais_por_categoria
RECURSIVE SumTotals(_)
SumTotals(totals) ==
  IF DOMAIN totals = {} THEN 0
  ELSE LET Rest(c) == totals[c] + SumTotals([x \in DOMAIN totals \ {c} |-> totals[x]])
       IN  Rest(CHOOSE c \in DOMAIN totals : TRUE)

\* C28: in every ok:true payload the values of totais_por_categoria sum to
\* the sum of `valor` over the rows of `transacoes`.
C28_TotalsConserveSum ==
  \A p \in Procs :
    OkOut(p) => SumTotals(run[p].out.totais_por_categoria) = SumValor(Transacoes(p))

\* C29: when an LLM-mode call with a usable client and a positive
\* block_size has returned, every non-empty cleaned expense description of
\* its statement is a key of the cache file, whatever the responses were and
\* whichever blocks failed; the empty description is in no block and in no
\* cache.
C29_DescriptionsPersisted ==
  \A p \in Procs :
    (LLMMode(p) /\ run[p].inp.block_size > 0)
      => /\ ~InSeq("", run[p].todo)
         /\ "" \notin DOMAIN run[p].cache
         /\ Done(p)
              => /\ ~LoadRaises(file)
                 /\ "" \notin DOMAIN load_cache(file)
                 /\ \A i \in 1..Len(run[p].df_expenses) :
                      run[p].df_expenses[i].descricao # ""
                        => run[p].df_expenses[i].descricao \in DOMAIN load_cache(file)

\* a call on an expense without description and an expense that the cache
\* file did not hold has returned after a failed block
C29_Witness ==
  \E p \in Procs :
    /\ LLMMode(p) /\ Done(p) /\ run[p].inp.block_size > 0
    /\ run[p].raised >= 1
    /\ \E i, j \in 1..Len(run[p].df_expenses) :
         /\ run[p].df_expenses[i].descricao = ""
         /\ run[p].df_expenses[j].descricao # ""
         /\ run[p].df_expenses[j].descricao \notin DOMAIN run[p].loaded
         /\ run[p].df_expenses[j].descricao \in DOMAIN load_cache(file)

\* the `categoria` cell of a row of a statement that came with the column
InputCategoria(row) == IF row[4] = "" THEN None ELSE row[4]

====
